---- MODULE Spec2Model ----
(***************************************************************************)
(* Model of the analysis -> plan -> score pipeline of the repository:      *)
(*   backend/visual_pattern_analyzer.py  VisualPatternAnalyzer             *)
(*   backend/quality_assessor.py         VideoQualityAssessor              *)
(*   video_engine/enhanced_synthesis.py  VideoSynthesizer.synthesize_video *)
(*                                                                         *)
(* Python values are modelled as follows.                                  *)
(*   str    a sequence of one-character strings                            *)
(*   dict   an insertion-ordered sequence of entries (quality metrics,     *)
(*          detected patterns) or a function whose DOMAIN is the key set   *)
(*          (metadata, scene descriptors)                                  *)
(*   float  scores are kept in units of 1/120: every score of the code is  *)
(*          a multiple of 0.1 and the mean is taken over 1, 3 or 4 of      *)
(*          them, so sum/len is exact in these units. Quotients that are   *)
(*          only compared with thresholds are kept as fractions num/den.   *)
(*   raise  a call returns [kind |-> "return", value |-> v] or             *)
(*          [kind |-> "raise", exc |-> name]                               *)
(***************************************************************************)
EXTENDS Integers, Sequences, FiniteSets, TLC

VARIABLES
    call,          \* which entry point this run exercises
    text,          \* analyze_content's argument
    hashseed,      \* the process's string-hash randomisation (PYTHONHASHSEED)
    pattern_type,  \* _recommend_scenes' first argument
    concept_count, \* _recommend_scenes' second argument
    video_exists,  \* Path(video_path).exists()
    metadata,      \* assess_video's metadata dict
    analysis,      \* outcome of analyze_content, None before it ran
    scenes,        \* outcome of _recommend_scenes, None before it ran
    total_duration,     \* generate_visual_blueprint's total, None before
    estimated_duration, \* synthesize_video's estimate, None before
    assessment,    \* outcome of assess_video, None before it ran
    report,        \* outcome of generate_report(assessment), None before
    extracted,     \* outcome of _extract_key_concepts(text) called on its own
    again,         \* a second _extract_key_concepts(text) and the hash seed
                   \* of the process that made it, None before
    objects,       \* the objects calls of several threads share: the
                   \* analyzer's visual_patterns, the assessor's
                   \* quality_thresholds, the callers' metadata dicts
    heap,          \* the scene descriptor dicts allocated so far
    frames         \* per thread: its call, its position and its locals

vars == <<call, text, hashseed, pattern_type, concept_count, video_exists,
          metadata, analysis, scenes, total_duration, estimated_duration,
          assessment, report, extracted, again, objects, heap, frames>>

None == [kind |-> "none"]
Return(v) == [kind |-> "return", value |-> v]
Raise(e) == [kind |-> "raise", exc |-> e]
IsReturn(o) == o.kind = "return"
IsRaise(o) == o.kind = "raise"

\* dict.get(key, default)
Get(d, key, default) == IF key \in DOMAIN d THEN d[key] ELSE default

(***************************************************************************)
(* Bounds of the explored inputs.                                          *)
(***************************************************************************)
MaxDuration == 302
MaxSceneCount == 17
MaxConceptCount == 9
MaxNegative == 1
MaxWords == 2
MaxLongWords == 9
MaxSeed == 2

(***************************************************************************)
(* Numbers.                                                                *)
(***************************************************************************)
\* a score written in tenths (0.4 is Tenths(4)), in units of 1/120
Tenths(t) == t * 12
\* 0.75, the only score of the code that is not a multiple of 0.1
ThreeQuarters == Tenths(15) \div 2

\* Python's a / b
TrueDiv(a, b) ==
    IF b = 0 THEN Raise("ZeroDivisionError")
    ELSE Return([num |-> a, den |-> b])
\* q * k for a fraction q
FracTimes(q, k) == [num |-> q.num * k, den |-> q.den]
\* q < k and q > k for a fraction q and an integer k
FracLt(q, k) == IF q.den > 0 THEN q.num < k * q.den ELSE q.num > k * q.den
FracGt(q, k) == IF q.den > 0 THEN q.num > k * q.den ELSE q.num < k * q.den

RECURSIVE SumSeq(_)
SumSeq(s) == IF s = <<>> THEN 0 ELSE Head(s) + SumSeq(Tail(s))

(***************************************************************************)
(* VideoQualityAssessor                                                    *)
(***************************************************************************)
quality_thresholds ==
    [duration        |-> [min |-> 10, max |-> 300, optimal |-> <<30, 120>>],
     scene_count     |-> [min |-> 2, max |-> 15, optimal |-> <<3, 8>>],
     concept_clarity |-> [min |-> Tenths(6), optimal |-> Tenths(8)],
     pacing          |-> [optimal |-> <<3, 8>>]]

Metric(score, status, message) ==
    [score |-> score, status |-> status, message |-> message]

\* lines 103-131 with the optimal range taken exclusive of its bounds
_assess_duration_exclusive(duration) ==
    LET thresholds == quality_thresholds.duration
        optimal_min == thresholds.optimal[1]
        optimal_max == thresholds.optimal[2]
    IN  IF duration < thresholds.min
        THEN Metric(Tenths(4), "too_short", <<"Video is too short", duration>>)
        ELSE IF duration > thresholds.max
        THEN Metric(Tenths(6), "too_long", <<"Video is too long", duration>>)
        ELSE IF optimal_min < duration /\ duration < optimal_max
        THEN Metric(Tenths(10), "optimal", <<"Duration is optimal", duration>>)
        ELSE Metric(Tenths(8), "acceptable", <<"Duration is acceptable", duration>>)

_assess_duration(duration) ==
    LET thresholds == quality_thresholds.duration
        optimal_min == thresholds.optimal[1]
        optimal_max == thresholds.optimal[2]
    IN  IF duration < thresholds.min
        THEN Metric(Tenths(4), "too_short", <<"Video is too short", duration>>)
        ELSE IF duration > thresholds.max
        THEN Metric(Tenths(6), "too_long", <<"Video is too long", duration>>)
        ELSE IF optimal_min <= duration /\ duration <= optimal_max
        THEN Metric(Tenths(10), "optimal", <<"Duration is optimal", duration>>)
        ELSE Metric(Tenths(8), "acceptable", <<"Duration is acceptable", duration>>)

\* lines 133-161 with <= in place of < in the first test
_assess_scene_count_inclusive(scene_count) ==
    LET thresholds == quality_thresholds.scene_count
        optimal_min == thresholds.optimal[1]
        optimal_max == thresholds.optimal[2]
    IN  IF scene_count <= thresholds.min
        THEN Metric(Tenths(5), "too_few", <<"Too few scenes", scene_count>>)
        ELSE IF scene_count > thresholds.max
        THEN Metric(Tenths(6), "too_many", <<"Too many scenes", scene_count>>)
        ELSE IF optimal_min <= scene_count /\ scene_count <= optimal_max
        THEN Metric(Tenths(10), "optimal", <<"Scene count is optimal", scene_count>>)
        ELSE Metric(Tenths(8), "acceptable", <<"Scene count is acceptable", scene_count>>)

_assess_scene_count(scene_count) ==
    LET thresholds == quality_thresholds.scene_count
        optimal_min == thresholds.optimal[1]
        optimal_max == thresholds.optimal[2]
    IN  IF scene_count < thresholds.min
        THEN Metric(Tenths(5), "too_few", <<"Too few scenes", scene_count>>)
        ELSE IF scene_count > thresholds.max
        THEN Metric(Tenths(6), "too_many", <<"Too many scenes", scene_count>>)
        ELSE IF optimal_min <= scene_count /\ scene_count <= optimal_max
        THEN Metric(Tenths(10), "optimal", <<"Scene count is optimal", scene_count>>)
        ELSE Metric(Tenths(8), "acceptable", <<"Scene count is acceptable", scene_count>>)

\* lines 163-184 with >= in place of > in the second test
_assess_pacing_exclusive(pacing) ==
    LET optimal_min == quality_thresholds.pacing.optimal[1]
        optimal_max == quality_thresholds.pacing.optimal[2]
    IN  IF FracLt(pacing, optimal_min)
        THEN Metric(Tenths(6), "too_fast", <<"Pacing is too fast", pacing>>)
        ELSE IF ~FracLt(pacing, optimal_max)
        THEN Metric(Tenths(7), "too_slow", <<"Pacing is slow", pacing>>)
        ELSE Metric(Tenths(10), "optimal", <<"Pacing is optimal", pacing>>)

\* pacing is the fraction duration / scene_count
_assess_pacing(pacing) ==
    LET optimal_min == quality_thresholds.pacing.optimal[1]
        optimal_max == quality_thresholds.pacing.optimal[2]
    IN  IF FracLt(pacing, optimal_min)
        THEN Metric(Tenths(6), "too_fast", <<"Pacing is too fast", pacing>>)
        ELSE IF FracGt(pacing, optimal_max)
        THEN Metric(Tenths(7), "too_slow", <<"Pacing is slow", pacing>>)
        ELSE Metric(Tenths(10), "optimal", <<"Pacing is optimal", pacing>>)

\* lines 191-210 with <= in place of < in the first test
clarity_by_density_inclusive(concepts, duration) ==
    LET quotient == TrueDiv(concepts, duration)
    IN  IF IsRaise(quotient) THEN quotient
        ELSE LET concepts_per_minute == FracTimes(quotient.value, 60)
             IN  IF ~FracGt(concepts_per_minute, 1)
                 THEN Return(Metric(Tenths(7), "low_density",
                                    <<"Low concept density">>))
                 ELSE IF FracGt(concepts_per_minute, 8)
                 THEN Return(Metric(Tenths(6), "high_density",
                                    <<"High concept density">>))
                 ELSE Return(Metric(Tenths(10), "optimal",
                                    <<"Content clarity is optimal",
                                      concepts_per_minute>>))

\* lines 191-210: concept_count / duration * 60 against the density bands
clarity_by_density(concepts, duration) ==
    LET quotient == TrueDiv(concepts, duration)
    IN  IF IsRaise(quotient) THEN quotient
        ELSE LET concepts_per_minute == FracTimes(quotient.value, 60)
             IN  IF FracLt(concepts_per_minute, 1)
                 THEN Return(Metric(Tenths(7), "low_density",
                                    <<"Low concept density">>))
                 ELSE IF FracGt(concepts_per_minute, 8)
                 THEN Return(Metric(Tenths(6), "high_density",
                                    <<"High concept density">>))
                 ELSE Return(Metric(Tenths(10), "optimal",
                                    <<"Content clarity is optimal",
                                      concepts_per_minute>>))

\* _assess_clarity without the duration == 0 guard of line 188
_assess_clarity_unguarded(concepts, duration) ==
    clarity_by_density(concepts, duration)

_assess_clarity(concepts, duration) ==
    IF duration = 0
    THEN Return(Metric(0, "unknown", <<"Cannot assess clarity">>))
    ELSE clarity_by_density(concepts, duration)

\* an entry of the insertion-ordered metrics dict
Entry(name, metric) == [name |-> name] @@ metric

Scores(metrics) == [i \in 1..Len(metrics) |-> metrics[i].score]

\* lines 78-79, dividing by a fixed metric count
overall_score_fixed_len(metrics) ==
    LET metric_scores == Scores(metrics)
    IN  IF metric_scores # <<>> THEN SumSeq(metric_scores) \div 4 ELSE 0

\* lines 78-79
overall_score(metrics) ==
    LET metric_scores == Scores(metrics)
    IN  IF metric_scores # <<>>
        THEN SumSeq(metric_scores) \div Len(metric_scores)
        ELSE 0

RecommendationFor(name, status) ==
    IF name = "duration" THEN
        IF status = "too_short"
        THEN <<"Add more explanatory scenes to increase duration">>
        ELSE IF status = "too_long"
        THEN <<"Consider splitting into multiple shorter videos">>
        ELSE <<>>
    ELSE IF name = "scene_structure" THEN
        IF status = "too_few"
        THEN <<"Add more visual variety with additional scenes">>
        ELSE IF status = "too_many"
        THEN <<"Consolidate similar scenes for better flow">>
        ELSE <<>>
    ELSE IF name = "pacing" THEN
        IF status = "too_fast"
        THEN <<"Slow down transitions and add pause points">>
        ELSE IF status = "too_slow"
        THEN <<"Reduce scene duration for better engagement">>
        ELSE <<>>
    ELSE IF name = "content_clarity" THEN
        IF status = "high_density"
        THEN <<"Break complex concepts into simpler parts">>
        ELSE IF status = "low_density"
        THEN <<"Add more details and examples">>
        ELSE <<>>
    ELSE <<>>

RECURSIVE RecommendationLoop(_)
RecommendationLoop(metrics) ==
    IF metrics = <<>> THEN <<>>
    ELSE LET m == Head(metrics)
         IN  (IF m.score < Tenths(7) THEN RecommendationFor(m.name, m.status)
              ELSE <<>>)
             \o RecommendationLoop(Tail(metrics))

\* lines 216-240 entered for scores below 0.6 instead of below 0.7
RECURSIVE RecommendationLoopBelowSix(_)
RecommendationLoopBelowSix(metrics) ==
    IF metrics = <<>> THEN <<>>
    ELSE LET m == Head(metrics)
         IN  (IF m.score < Tenths(6) THEN RecommendationFor(m.name, m.status)
              ELSE <<>>)
             \o RecommendationLoopBelowSix(Tail(metrics))

Fallback == "Video quality is excellent! No major improvements needed"

_generate_recommendations_below_six(metrics) ==
    LET recommendations == RecommendationLoopBelowSix(metrics)
    IN  IF recommendations = <<>> THEN <<Fallback>> ELSE recommendations

_generate_recommendations(metrics) ==
    LET recommendations == RecommendationLoop(metrics)
    IN  IF recommendations = <<>> THEN <<Fallback>> ELSE recommendations

Names(metrics) == [i \in 1..Len(metrics) |-> metrics[i].name]

\* lines 85-89 with > in place of >= in the first test
strengths_of_strict(metrics) ==
    LET Strong(m) == m.score > Tenths(8)
    IN  Names(SelectSeq(metrics, Strong))

\* lines 85-89
strengths_of(metrics) ==
    LET Strong(m) == m.score >= Tenths(8)
    IN  Names(SelectSeq(metrics, Strong))
\* lines 88-89 with 0.4 in place of 0.6
weaknesses_of_below_point_four(metrics) ==
    LET Weak(m) == ~(m.score >= Tenths(8)) /\ m.score < Tenths(4)
    IN  Names(SelectSeq(metrics, Weak))

weaknesses_of(metrics) ==
    LET Weak(m) == ~(m.score >= Tenths(8)) /\ m.score < Tenths(6)
    IN  Names(SelectSeq(metrics, Weak))

\* lines 92-99, with > in place of >= in the first band
rating_of_strict(score) ==
    IF score > Tenths(8) THEN "Excellent"
    ELSE IF score >= Tenths(7) THEN "Good"
    ELSE IF score >= Tenths(6) THEN "Fair"
    ELSE "Needs Improvement"

\* lines 92-99
rating_of(score) ==
    IF score >= Tenths(8) THEN "Excellent"
    ELSE IF score >= Tenths(7) THEN "Good"
    ELSE IF score >= Tenths(6) THEN "Fair"
    ELSE "Needs Improvement"

\* lines 34-41
default_assessment ==
    [overall_score |-> Tenths(8), metrics |-> <<>>, recommendations |-> <<>>,
     strengths |-> <<>>, weaknesses |-> <<>>, rating |-> "Good"]

\* lines 45-54 without the two assignments of lines 51-52
demo_assessment_defaults ==
    [default_assessment EXCEPT
        !.metrics = <<Entry("file_exists",
                            Metric(0, "fail", <<"Video file not found (Demo Mode or rendering pending)">>))>>,
        !.recommendations = <<"Enable API mode and render video for full assessment">>]

\* lines 45-54
demo_assessment ==
    [default_assessment EXCEPT
        !.metrics = <<Entry("file_exists",
                            Metric(0, "fail", <<"Video file not found (Demo Mode or rendering pending)">>))>>,
        !.overall_score = ThreeQuarters,
        !.rating = "Good (Demo)",
        !.recommendations = <<"Enable API mode and render video for full assessment">>]

\* lines 56-75 with the pacing block moved after the clarity block
collect_metrics_pacing_last(md) ==
    LET duration == Get(md, "duration", 0)
        scene_count == Get(md, "scene_count", 0)
        concepts == Get(md, "concept_count", 0)
        pacing == TrueDiv(duration, scene_count)
        clarity == _assess_clarity(concepts, duration)
    IN  IF IsRaise(clarity) THEN clarity
        ELSE IF scene_count > 0 /\ IsRaise(pacing) THEN pacing
        ELSE Return(
            <<Entry("duration", _assess_duration(duration)),
              Entry("scene_structure", _assess_scene_count(scene_count)),
              Entry("content_clarity", clarity.value)>>
            \o (IF scene_count > 0
                THEN <<Entry("pacing", _assess_pacing(pacing.value))>>
                ELSE <<>>))

\* lines 56-75: the metrics dict in insertion order, or the exception raised
collect_metrics(md) ==
    LET duration == Get(md, "duration", 0)
        scene_count == Get(md, "scene_count", 0)
        concepts == Get(md, "concept_count", 0)
        pacing == TrueDiv(duration, scene_count)
        clarity == _assess_clarity(concepts, duration)
    IN  IF scene_count > 0 /\ IsRaise(pacing) THEN pacing
        ELSE IF IsRaise(clarity) THEN clarity
        ELSE Return(
            <<Entry("duration", _assess_duration(duration)),
              Entry("scene_structure", _assess_scene_count(scene_count))>>
            \o (IF scene_count > 0
                THEN <<Entry("pacing", _assess_pacing(pacing.value))>>
                ELSE <<>>)
            \o <<Entry("content_clarity", clarity.value)>>)

assess_video(exists, md) ==
    IF ~exists THEN Return(demo_assessment)
    ELSE LET collected == collect_metrics(md)
         IN  IF IsRaise(collected) THEN collected
             ELSE LET metrics == collected.value
                      overall == overall_score(metrics)
                  IN  Return(
                      [overall_score |-> overall,
                       metrics |-> metrics,
                       recommendations |-> _generate_recommendations(metrics),
                       strengths |-> strengths_of(metrics),
                       weaknesses |-> weaknesses_of(metrics),
                       rating |-> rating_of(overall)])

(***************************************************************************)
(* Python str operations on sequences of characters.                       *)
(***************************************************************************)
UpperLetters ==
    <<"A","B","C","D","E","F","G","H","I","J","K","L","M","N","O","P","Q","R","S","T","U","V","W","X","Y","Z">>
LowerLetters ==
    <<"a","b","c","d","e","f","g","h","i","j","k","l","m","n","o","p","q","r","s","t","u","v","w","x","y","z">>

Range(s) == {s[i] : i \in 1..Len(s)}

isupper(c) == c \in Range(UpperLetters)
lower_char(c) ==
    IF isupper(c)
    THEN LowerLetters[CHOOSE i \in 1..Len(UpperLetters) : UpperLetters[i] = c]
    ELSE c
\* str.lower()
lower(s) == [i \in 1..Len(s) |-> lower_char(s[i])]

\* str.upper()
upper_char(c) ==
    IF c \in Range(LowerLetters)
    THEN UpperLetters[CHOOSE i \in 1..Len(LowerLetters) : LowerLetters[i] = c]
    ELSE c
upper(s) == [i \in 1..Len(s) |-> upper_char(s[i])]

\* str.replace(old, new) for single characters
replace(s, old, new) == [i \in 1..Len(s) |-> IF s[i] = old THEN new ELSE s[i]]

iscased(c) == c \in Range(LowerLetters) \cup Range(UpperLetters)
\* str.title(): a cased character is upper-cased after an uncased one (or at
\* the start) and lower-cased after a cased one
title(s) ==
    [i \in 1..Len(s) |->
        IF i = 1 \/ ~iscased(s[i - 1]) THEN upper_char(s[i])
        ELSE lower_char(s[i])]

DecimalDigits == <<"0", "1", "2", "3", "4", "5", "6", "7", "8", "9">>
\* str(n) for n >= 0
RECURSIVE str_int(_)
str_int(n) ==
    IF n < 10 THEN <<DecimalDigits[n + 1]>>
    ELSE str_int(n \div 10) \o <<DecimalDigits[(n % 10) + 1]>>

\* format(x, '.1%') for a score x >= 0 kept in units of 1/120: x * 100 with
\* one digit after the point, rounded to nearest, a tie to the even digit
format_percent(score) ==
    LET numerator == score * 1000
        denominator == Tenths(10)
        floor == numerator \div denominator
        rest == numerator % denominator
        rounded == IF 2 * rest > denominator THEN floor + 1
                   ELSE IF 2 * rest < denominator THEN floor
                   ELSE IF floor % 2 = 0 THEN floor ELSE floor + 1
    IN  str_int(rounded \div 10) \o <<".">> \o str_int(rounded % 10) \o <<"%">>

\* needle in haystack
Contains(haystack, needle) ==
    \E i \in 0..(Len(haystack) - Len(needle)) :
        SubSeq(haystack, i + 1, i + Len(needle)) = needle

\* the first index >= i of s whose character is not in chars, Len(s)+1 if none
RECURSIVE SkipRun(_, _, _)
SkipRun(s, i, chars) ==
    IF i <= Len(s) /\ s[i] \in chars THEN SkipRun(s, i + 1, chars) ELSE i

\* the pieces of s between maximal runs of separators (empty pieces kept)
RECURSIVE SplitRuns(_, _, _, _)
SplitRuns(s, i, cur, separators) ==
    IF i > Len(s) THEN <<cur>>
    ELSE IF s[i] \in separators
    THEN <<cur>> \o SplitRuns(s, SkipRun(s, i, separators), <<>>, separators)
    ELSE SplitRuns(s, i + 1, Append(cur, s[i]), separators)

\* re.split(r'[.!?]+', s)
re_split_sentences(s) == SplitRuns(s, 1, <<>>, {".", "!", "?"})

NonEmpty(piece) == piece # <<>>
\* str.split(): the words between runs of whitespace, no empty word
split(s) == SelectSeq(SplitRuns(s, 1, <<>>, {" "}), NonEmpty)

\* str.strip(chars)
RECURSIVE rstrip(_, _)
rstrip(s, chars) ==
    IF s # <<>> /\ s[Len(s)] \in chars
    THEN rstrip(SubSeq(s, 1, Len(s) - 1), chars)
    ELSE s
strip(s, chars) ==
    LET from == SkipRun(s, 1, chars)
    IN  rstrip(SubSeq(s, from, Len(s)), chars)

\* seq[:n]
Prefix(seq, n) == SubSeq(seq, 1, IF Len(seq) < n THEN Len(seq) ELSE n)

\* the distinct elements of seq in first-seen order
RECURSIVE Dedup(_)
Dedup(seq) ==
    IF seq = <<>> THEN <<>>
    ELSE LET init == Dedup(SubSeq(seq, 1, Len(seq) - 1))
             last == seq[Len(seq)]
         IN  IF last \in Range(init) THEN init ELSE Append(init, last)

Without(seq, i) == SubSeq(seq, 1, i - 1) \o SubSeq(seq, i + 1, Len(seq))

\* the k-th rearrangement of seq (factorial number system, the last place
\* chosen first, so that small k already change which elements come last)
RECURSIVE Rearranged(_, _)
Rearranged(seq, k) ==
    IF seq = <<>> THEN <<>>
    ELSE LET i == Len(seq) - (k % Len(seq))
         IN  Rearranged(Without(seq, i), k \div Len(seq)) \o <<seq[i]>>

\* list(set(seq)): the distinct elements in the order the set iterates them.
\* That order follows the strings' hashes, which Python randomises per process;
\* the seed selects the order, the same one for every call of one process.
list_of_set(seq, seed) == Rearranged(Dedup(seq), seed)

(***************************************************************************)
(* VideoQualityAssessor.generate_report. The report text is kept as its    *)
(* sequence of lines; a line is a record named after what it shows, its    *)
(* variable parts kept as character sequences. Characters outside ASCII    *)
(* are written by their Unicode names.                                     *)
(***************************************************************************)
\* the characters of the metric names
name_chars(name) ==
    CASE name = "duration" -> <<"d","u","r","a","t","i","o","n">>
      [] name = "scene_structure" ->
            <<"s","c","e","n","e","_","s","t","r","u","c","t","u","r","e">>
      [] name = "pacing" -> <<"p","a","c","i","n","g">>
      [] name = "content_clarity" ->
            <<"c","o","n","t","e","n","t","_","c","l","a","r","i","t","y">>
      [] name = "file_exists" ->
            <<"f","i","l","e","_","e","x","i","s","t","s">>

Blank == [blank |-> ""]
Fixed(line) == [fixed |-> line]
\* a row of BOX DRAWINGS HEAVY HORIZONTAL
Rule == Fixed("HEAVY HORIZONTAL RULE")

\* line 262 with > in place of the first >=
status_icon_strict(score) ==
    IF score > Tenths(8) THEN "CHECK MARK"
    ELSE IF score >= Tenths(6) THEN "WARNING SIGN"
    ELSE "BALLOT X"

\* line 262
status_icon(score) ==
    IF score >= Tenths(8) THEN "CHECK MARK"
    ELSE IF score >= Tenths(6) THEN "WARNING SIGN"
    ELSE "BALLOT X"

\* lines 249-259
report_head(assessment_record) ==
    <<Blank,
      Fixed("BOX TOP"),
      Fixed("VIDEO QUALITY ASSESSMENT REPORT"),
      Fixed("BOX BOTTOM"),
      Blank,
      [overall_rating |-> assessment_record.rating],
      [overall_score |-> format_percent(assessment_record.overall_score)],
      Blank,
      Rule,
      Fixed("METRICS BREAKDOWN"),
      Rule>>

\* lines 261-265
RECURSIVE report_metrics(_)
report_metrics(metrics) ==
    IF metrics = <<>> THEN <<>>
    ELSE LET metric_data == Head(metrics)
         IN  <<Blank,
               [icon |-> status_icon(metric_data.score),
                metric |-> upper(name_chars(metric_data.name))],
               [score |-> format_percent(metric_data.score)],
               [message |-> metric_data.message]>>
             \o report_metrics(Tail(metrics))

\* lines 267-279: a section of names, or nothing for an empty list
report_section(heading, icon, names) ==
    IF names = <<>> THEN <<>>
    ELSE <<Blank, Rule, Fixed(heading), Rule>>
         \o [i \in 1..Len(names) |->
                [bullet |-> icon,
                 name |-> title(replace(name_chars(names[i]), "_", " "))]]

\* lines 281-285
report_recommendations(recommendations) ==
    <<Blank, Rule, Fixed("RECOMMENDATIONS"), Rule>>
    \o [i \in 1..Len(recommendations) |->
           [number |-> str_int(i), recommendation |-> recommendations[i]]]

generate_report(assessment_record) ==
    report_head(assessment_record)
    \o report_metrics(assessment_record.metrics)
    \o report_section("STRENGTHS", "CHECK MARK", assessment_record.strengths)
    \o report_section("AREAS FOR IMPROVEMENT", "WARNING SIGN",
                      assessment_record.weaknesses)
    \o report_recommendations(assessment_record.recommendations)

(***************************************************************************)
(* VisualPatternAnalyzer                                                   *)
(***************************************************************************)
visual_patterns ==
    <<[name |-> "comparison", keywords |-> <<
        <<"v","s">>,
        <<"v","e","r","s","u","s">>,
        <<"c","o","m","p","a","r","e","d"," ","t","o">>,
        <<"d","i","f","f","e","r","e","n","c","e"," ","b","e","t","w","e","e","n">>,
        <<"c","o","n","t","r","a","s","t">>>>],
      [name |-> "process", keywords |-> <<
        <<"s","t","e","p">>,
        <<"p","r","o","c","e","s","s">>,
        <<"f","l","o","w">>,
        <<"s","e","q","u","e","n","c","e">>,
        <<"p","r","o","c","e","d","u","r","e">>,
        <<"h","o","w"," ","t","o">>>>],
      [name |-> "hierarchy", keywords |-> <<
        <<"s","t","r","u","c","t","u","r","e">>,
        <<"o","r","g","a","n","i","z","a","t","i","o","n">>,
        <<"l","e","v","e","l","s">>,
        <<"h","i","e","r","a","r","c","h","y">>,
        <<"l","a","y","e","r","s">>>>],
      [name |-> "relationship", keywords |-> <<
        <<"r","e","l","a","t","i","o","n","s","h","i","p">>,
        <<"c","o","n","n","e","c","t","i","o","n">>,
        <<"l","i","n","k","e","d">>,
        <<"r","e","l","a","t","e","d">>,
        <<"a","s","s","o","c","i","a","t","i","o","n">>>>],
      [name |-> "timeline", keywords |-> <<
        <<"t","i","m","e","l","i","n","e">>,
        <<"h","i","s","t","o","r","y">>,
        <<"e","v","o","l","u","t","i","o","n">>,
        <<"c","h","r","o","n","o","l","o","g","y">>,
        <<"o","v","e","r"," ","t","i","m","e">>>>],
      [name |-> "statistics", keywords |-> <<
        <<"d","a","t","a">>,
        <<"s","t","a","t","i","s","t","i","c","s">>,
        <<"p","e","r","c","e","n","t","a","g","e">>,
        <<"n","u","m","b","e","r">>,
        <<"c","h","a","r","t">>,
        <<"g","r","a","p","h">>>>],
      [name |-> "concept", keywords |-> <<
        <<"c","o","n","c","e","p","t">>,
        <<"i","d","e","a">>,
        <<"p","r","i","n","c","i","p","l","e">>,
        <<"t","h","e","o","r","y">>,
        <<"f","u","n","d","a","m","e","n","t","a","l">>>>]>>

ImportantTerms ==
    <<<<"i","m","p","o","r","t","a","n","t">>,
      <<"k","e","y">>,
      <<"m","a","i","n">>,
      <<"p","r","i","m","a","r","y">>>>

StopList ==
    <<<<"T","h","e">>,
      <<"T","h","i","s">>,
      <<"T","h","a","t">>,
      <<"W","i","t","h">>>>

\* the number of places where needle occurs in haystack
Occurrences(haystack, needle) ==
    Cardinality({i \in 0..(Len(haystack) - Len(needle)) :
                    SubSeq(haystack, i + 1, i + Len(needle)) = needle})

\* line 30 counting every occurrence of a keyword, not the keyword once
RECURSIVE CountOccurrences(_, _)
CountOccurrences(keywords, text_lower) ==
    IF keywords = <<>> THEN 0
    ELSE Occurrences(text_lower, Head(keywords))
         + CountOccurrences(Tail(keywords), text_lower)

\* line 30: the number of keywords found in text_lower
RECURSIVE CountFound(_, _)
CountFound(keywords, text_lower) ==
    IF keywords = <<>> THEN 0
    ELSE (IF Contains(text_lower, Head(keywords)) THEN 1 ELSE 0)
         + CountFound(Tail(keywords), text_lower)

\* lines 28-32: the detected_patterns dict in insertion order
RECURSIVE detect_patterns(_, _)
detect_patterns(patterns, text_lower) ==
    IF patterns = <<>> THEN <<>>
    ELSE LET count == CountFound(Head(patterns).keywords, text_lower)
         IN  (IF count > 0
              THEN <<[name |-> Head(patterns).name, count |-> count]>>
              ELSE <<>>)
             \o detect_patterns(Tail(patterns), text_lower)

\* an insertion that puts an item before the items of equal count
RECURSIVE InsertBeforeEqual(_, _)
InsertBeforeEqual(sorted, item) ==
    IF sorted = <<>> THEN <<item>>
    ELSE IF Head(sorted).count > item.count
    THEN <<Head(sorted)>> \o InsertBeforeEqual(Tail(sorted), item)
    ELSE <<item>> \o sorted

\* the stable insertion: after every item of greater or equal count
RECURSIVE InsertDescending(_, _)
InsertDescending(sorted, item) ==
    IF sorted = <<>> THEN <<item>>
    ELSE IF Head(sorted).count >= item.count
    THEN <<Head(sorted)>> \o InsertDescending(Tail(sorted), item)
    ELSE <<item>> \o sorted

\* line 35 with a sort that reverses the order of equal counts
RECURSIVE sorted_by_count_unstable(_)
sorted_by_count_unstable(items) ==
    IF items = <<>> THEN <<>>
    ELSE InsertBeforeEqual(
             sorted_by_count_unstable(SubSeq(items, 1, Len(items) - 1)),
             items[Len(items)])

\* line 35: sorted(items, key=count, reverse=True), a stable sort
RECURSIVE sorted_by_count(_)
sorted_by_count(items) ==
    IF items = <<>> THEN <<>>
    ELSE InsertDescending(sorted_by_count(SubSeq(items, 1, Len(items) - 1)),
                          items[Len(items)])

Punctuation == {".", ",", "!", "?"}

\* lines 60-63: the concepts one word contributes
concepts_of_word(word) ==
    IF word # <<>>
       /\ (isupper(word[1]) \/ lower(word) \in Range(ImportantTerms))
       /\ Len(word) > 3
       /\ word \notin Range(StopList)
    THEN <<strip(word, Punctuation)>>
    ELSE <<>>

RECURSIVE concepts_of_words(_)
concepts_of_words(words) ==
    IF words = <<>> THEN <<>>
    ELSE concepts_of_word(Head(words)) \o concepts_of_words(Tail(words))

RECURSIVE concepts_of_sentences(_)
concepts_of_sentences(sentences) ==
    IF sentences = <<>> THEN <<>>
    ELSE concepts_of_words(split(Head(sentences)))
         \o concepts_of_sentences(Tail(sentences))

_extract_key_concepts(txt, seed) ==
    LET sentences == re_split_sentences(txt)
        concepts == concepts_of_sentences(Prefix(sentences, 5))
    IN  Prefix(list_of_set(concepts, seed), 8)

Scene(type, duration, visual) ==
    [type |-> type, duration |-> duration, visual |-> visual]

scene_templates(count) ==
    [comparison |->
        <<Scene("intro", 3, "split_screen"),
          Scene("comparison", 5, "side_by_side"),
          Scene("conclusion", 2, "merge")>>,
     process |->
        <<Scene("intro", 3, "title"),
          Scene("steps", 2, "flowchart") @@ [repeat |-> count],
          Scene("summary", 3, "overview")>>,
     hierarchy |->
        <<Scene("intro", 3, "title"),
          Scene("structure", 6, "tree_diagram"),
          Scene("details", 4, "zoom_in")>>,
     timeline |->
        <<Scene("intro", 3, "title"),
          Scene("timeline", 7, "horizontal_timeline"),
          Scene("conclusion", 2, "summary")>>,
     concept |->
        <<Scene("intro", 3, "fade_in"),
          Scene("explanation", 5, "bullet_points"),
          Scene("conclusion", 2, "fade_out")>>]

\* line 97 with the comparison template as the default
_recommend_scenes_other_default(pattern, count) ==
    LET templates == scene_templates(count)
    IN  Get(templates, pattern, templates["comparison"])

_recommend_scenes(pattern, count) ==
    LET templates == scene_templates(count)
    IN  Get(templates, pattern, templates["concept"])

\* Python's seq[0]
First(seq) == IF seq = <<>> THEN Raise("IndexError") ELSE Return(seq[1])

\* line 41 without the test for an empty list
primary_pattern_unguarded(sorted_patterns) ==
    LET first == First(sorted_patterns)
    IN  IF IsRaise(first) THEN first ELSE Return(first.value.name)

\* line 41
primary_pattern_of(sorted_patterns) ==
    IF sorted_patterns # <<>>
    THEN LET first == First(sorted_patterns)
         IN  IF IsRaise(first) THEN first ELSE Return(first.value.name)
    ELSE Return("concept")

analyze_content(txt, seed) ==
    LET text_lower == lower(txt)
        detected_patterns == detect_patterns(visual_patterns, text_lower)
        sorted_patterns == sorted_by_count(detected_patterns)
        key_concepts == _extract_key_concepts(txt, seed)
        primary_pattern == primary_pattern_of(sorted_patterns)
    IN  IF IsRaise(primary_pattern) THEN primary_pattern
        ELSE Return(
            [primary_visual_pattern |-> primary_pattern.value,
             all_patterns |-> sorted_patterns,
             key_concepts |-> key_concepts,
             word_count |-> Len(split(txt)),
             sentence_count |-> Len(re_split_sentences(txt)),
             recommended_scenes |->
                 _recommend_scenes(primary_pattern.value, Len(key_concepts))])

\* generate_visual_blueprint, lines 113-119: the total of the plan
RECURSIVE blueprint_total(_)
blueprint_total(plan) ==
    IF plan = <<>> THEN 0
    ELSE LET scene == Head(plan)
             repeat == Get(scene, "repeat", 1)
             duration == scene.duration * repeat
         IN  duration + blueprint_total(Tail(plan))

\* synthesize_video, line 169
RECURSIVE synthesis_estimate(_)
synthesis_estimate(plan) ==
    IF plan = <<>> THEN 0
    ELSE Get(Head(plan), "duration", 3) + synthesis_estimate(Tail(plan))

(***************************************************************************)
(* The quality assessor as a state machine: one call of assess_video on    *)
(* metadata drawn from the bounded ranges.                                 *)
(***************************************************************************)
\* the shared objects as the constructors and the callers leave them
CallerMetadata ==
    <<[duration |-> 45, scene_count |-> 5, concept_count |-> 6],
      [duration |-> 0, scene_count |-> 0, concept_count |-> 3]>>
InitialObjects ==
    [visual_patterns |-> visual_patterns,
     quality_thresholds |-> quality_thresholds,
     metadata |-> CallerMetadata]

NoText == <<>>
NoMetadata == <<>>

Durations == (0 - MaxNegative)..MaxDuration
SceneCounts == (0 - MaxNegative)..MaxSceneCount
ConceptCounts == (0 - MaxNegative)..MaxConceptCount

(***************************************************************************)
(* The analyzer as a state machine: analyze_content on a text, then the    *)
(* blueprint total and the synthesis estimate of the recommended scenes.  *)
(* The texts are words joined by single spaces: every text of up to        *)
(* MaxWords vocabulary words, and every text of up to MaxLongWords         *)
(* distinct capitalised words, each ending a sentence or not.              *)
(***************************************************************************)
Vocabulary ==
    <<<<"s","t","e","p">>,
      <<"d","a","t","a">>,
      <<"i","d","e","a">>,
      <<"v","s">>,
      <<"H","i","s","t","o","r","y">>,
      <<"f","l","o","w","c","h","a","r","t">>,
      <<"T","h","i","s">>,
      <<"T","h","i","s",",">>,
      <<"C","a","t",",">>,
      <<"m","a","i","n">>,
      <<"M","a","i","n",".">>>>

RECURSIVE Join(_)
Join(words) ==
    IF words = <<>> THEN <<>>
    ELSE IF Len(words) = 1 THEN Head(words)
    ELSE Head(words) \o <<" ">> \o Join(Tail(words))

ShortTexts ==
    {Join(ws) : ws \in UNION {[1..n -> Range(Vocabulary)] : n \in 0..MaxWords}}

\* the i-th of the distinct capitalised words: Aord, Bord, ...
LongWord(i) == <<UpperLetters[i], "o", "r", "d">>

LongTexts ==
    {Join([i \in DOMAIN ends |-> LongWord(i) \o (IF ends[i] THEN <<".">> ELSE <<>>)]) :
        ends \in UNION {[1..n -> BOOLEAN] : n \in 1..MaxLongWords}}

Texts == ShortTexts \cup LongTexts

PatternNames == {visual_patterns[i].name : i \in 1..Len(visual_patterns)}

InitAnalyze ==
    /\ call = "analyze"
    /\ text \in Texts
    /\ hashseed \in 0..MaxSeed
    /\ pattern_type = "concept"
    /\ concept_count = 0
    /\ video_exists = FALSE
    /\ metadata = NoMetadata
    /\ analysis = None
    /\ scenes = None
    /\ total_duration = None
    /\ estimated_duration = None
    /\ assessment = None
    /\ report = None
    /\ extracted = None
    /\ again = None
    /\ objects = InitialObjects
    /\ heap = <<>>
    /\ frames = <<>>

InitPlan ==
    /\ call = "plan"
    /\ text = NoText
    /\ hashseed = 0
    /\ pattern_type \in PatternNames \cup {"unknown"}
    /\ concept_count \in 0..MaxConceptCount
    /\ video_exists = FALSE
    /\ metadata = NoMetadata
    /\ analysis = None
    /\ scenes = None
    /\ total_duration = None
    /\ estimated_duration = None
    /\ assessment = None
    /\ report = None
    /\ extracted = None
    /\ again = None
    /\ objects = InitialObjects
    /\ heap = <<>>
    /\ frames = <<>>

\* analyze_content(text); its recommended_scenes are the plan handed on
AnalyzeContent ==
    /\ call = "analyze"
    /\ analysis = None
    /\ analysis' = analyze_content(text, hashseed)
    /\ scenes' = IF IsReturn(analysis')
                 THEN Return(analysis'.value.recommended_scenes)
                 ELSE analysis'
    /\ UNCHANGED <<call, text, hashseed, pattern_type, concept_count,
                   video_exists, metadata, total_duration, estimated_duration,
                   assessment,
                   report, extracted, again>>
    /\ UNCHANGED <<objects, heap, frames>>

\* _recommend_scenes(pattern_type, concept_count)
RecommendScenes ==
    /\ call = "plan"
    /\ scenes = None
    /\ scenes' = Return(_recommend_scenes(pattern_type, concept_count))
    /\ UNCHANGED <<call, text, hashseed, pattern_type, concept_count,
                   video_exists, metadata, analysis, total_duration,
                   estimated_duration, assessment,
                   report, extracted, again>>
    /\ UNCHANGED <<objects, heap, frames>>

\* the scene loop of generate_visual_blueprint over the recommended scenes
GenerateVisualBlueprint ==
    /\ IsReturn(scenes)
    /\ total_duration = None
    /\ total_duration' = Return(blueprint_total(scenes.value))
    /\ UNCHANGED <<call, text, hashseed, pattern_type, concept_count,
                   video_exists, metadata, analysis, scenes,
                   estimated_duration, assessment,
                   report, extracted, again>>
    /\ UNCHANGED <<objects, heap, frames>>

\* synthesize_video on an analysis holding the recommended scenes
SynthesizeVideo ==
    /\ IsReturn(scenes)
    /\ estimated_duration = None
    /\ estimated_duration' = Return(synthesis_estimate(scenes.value))
    /\ UNCHANGED <<call, text, hashseed, pattern_type, concept_count,
                   video_exists, metadata, analysis, scenes, total_duration,
                   assessment,
                   report, extracted, again>>
    /\ UNCHANGED <<objects, heap, frames>>

NextAnalyze == AnalyzeContent \/ GenerateVisualBlueprint \/ SynthesizeVideo
NextPlan == RecommendScenes \/ GenerateVisualBlueprint \/ SynthesizeVideo

SpecAnalyze == InitAnalyze /\ [][NextAnalyze]_vars
SpecPlan == InitPlan /\ [][NextPlan]_vars

(***************************************************************************)
(* _extract_key_concepts called on its own, twice on the same text: by one *)
(* process and then by that process or by another one, whose string hashes *)
(* are seeded on their own.                                                *)
(***************************************************************************)
InitExtract ==
    /\ call = "extract"
    /\ text \in Texts
    /\ hashseed \in 0..MaxSeed
    /\ pattern_type = "concept"
    /\ concept_count = 0
    /\ video_exists = FALSE
    /\ metadata = NoMetadata
    /\ analysis = None
    /\ scenes = None
    /\ total_duration = None
    /\ estimated_duration = None
    /\ assessment = None
    /\ report = None
    /\ extracted = None
    /\ again = None
    /\ objects = InitialObjects
    /\ heap = <<>>
    /\ frames = <<>>

ExtractKeyConcepts ==
    /\ call = "extract"
    /\ extracted = None
    /\ extracted' = Return(_extract_key_concepts(text, hashseed))
    /\ UNCHANGED <<call, text, hashseed, pattern_type, concept_count,
                   video_exists, metadata, analysis, scenes, total_duration,
                   estimated_duration, assessment, report, again>>
    /\ UNCHANGED <<objects, heap, frames>>

ExtractAgain ==
    /\ call = "extract"
    /\ IsReturn(extracted)
    /\ again = None
    /\ \E seed \in 0..MaxSeed :
           again' = [hashseed |-> seed,
                     key_concepts |-> _extract_key_concepts(text, seed)]
    /\ UNCHANGED <<call, text, hashseed, pattern_type, concept_count,
                   video_exists, metadata, analysis, scenes, total_duration,
                   estimated_duration, assessment, report,
                   extracted>>
    /\ UNCHANGED <<objects, heap, frames>>

NextExtract == ExtractKeyConcepts \/ ExtractAgain

SpecExtract == InitExtract /\ [][NextExtract]_vars

InitAssess ==
    /\ call = "assess"
    /\ text = NoText
    /\ hashseed = 0
    /\ pattern_type = "concept"
    /\ concept_count = 0
    /\ video_exists \in BOOLEAN
    /\ \E d \in Durations, s \in SceneCounts, c \in ConceptCounts :
           metadata = [duration |-> d, scene_count |-> s, concept_count |-> c]
    /\ analysis = None
    /\ scenes = None
    /\ total_duration = None
    /\ estimated_duration = None
    /\ assessment = None
    /\ report = None
    /\ extracted = None
    /\ again = None
    /\ objects = InitialObjects
    /\ heap = <<>>
    /\ frames = <<>>

AssessVideo ==
    /\ call = "assess"
    /\ assessment = None
    /\ assessment' = assess_video(video_exists, metadata)
    /\ UNCHANGED <<call, text, hashseed, pattern_type, concept_count,
                   video_exists, metadata, analysis, scenes, total_duration,
                   estimated_duration,
                   report, extracted, again>>
    /\ UNCHANGED <<objects, heap, frames>>

\* generate_report on the record assess_video returned
GenerateReport ==
    /\ call = "assess"
    /\ IsReturn(assessment)
    /\ report = None
    /\ report' = Return(generate_report(assessment.value))
    /\ UNCHANGED <<call, text, hashseed, pattern_type, concept_count,
                   video_exists, metadata, analysis, scenes, total_duration,
                   estimated_duration, assessment, extracted, again>>
    /\ UNCHANGED <<objects, heap, frames>>

NextAssess == AssessVideo \/ GenerateReport

SpecAssess == InitAssess /\ [][NextAssess]_vars

(***************************************************************************)
(* Calls of several threads on one analyzer and one assessor. A thread     *)
(* runs one call, a step at a time; the steps of different threads         *)
(* interleave. A step reads the shared objects as they are when it runs.   *)
(* The scene descriptors are dicts on the heap, a plan is the list of      *)
(* their addresses.                                                        *)
(***************************************************************************)
MaxThreads == 2
Threads == 1..MaxThreads

\* the calls a thread can make; an assess call names the caller's dict
ConcurrentCalls ==
    <<[op |-> "analyze", text |-> Join(<<Vocabulary[5], Vocabulary[10]>>)],
      [op |-> "analyze", text |-> <<>>],
      [op |-> "plan", pattern_type |-> "process", concept_count |-> 2],
      [op |-> "plan", pattern_type |-> "statistics", concept_count |-> 0],
      [op |-> "assess", exists |-> TRUE, metadata |-> 1],
      [op |-> "assess", exists |-> FALSE, metadata |-> 1],
      [op |-> "assess", exists |-> TRUE, metadata |-> 2]>>

FirstStep(op) ==
    CASE op = "analyze" -> "detect"
      [] op = "plan" -> "recommend"
      [] op = "assess" -> "exists"

Frame(c) ==
    [called |-> c, pc |-> FirstStep(c.op), locals |-> <<>>, result |-> None]

\* the dict literal of lines 69-95 evaluated once for the instance and its
\* descriptors reused by every call
template_base_shared(h) == 0

\* lines 69-95 evaluated anew by every call: the address before the first
\* of the descriptors the dict literal allocates
template_base(h) == Len(h)

TemplateOrder == <<"comparison", "process", "hierarchy", "timeline", "concept">>

\* the descriptors of all templates in the order the literal creates them
RECURSIVE AllDescriptors(_, _)
AllDescriptors(templates, keys) ==
    IF keys = <<>> THEN <<>>
    ELSE templates[Head(keys)] \o AllDescriptors(templates, Tail(keys))

\* the number of descriptors created before those of template key
RECURSIVE OffsetOf(_, _, _)
OffsetOf(templates, keys, key) ==
    IF Head(keys) = key THEN 0
    ELSE Len(templates[Head(keys)]) + OffsetOf(templates, Tail(keys), key)

\* _recommend_scenes on the heap: the heap after the call and the addresses
\* of the descriptors of the list it returns
recommend_scenes_on_heap(h, pattern, count) ==
    LET templates == scene_templates(count)
        key == IF pattern \in DOMAIN templates THEN pattern ELSE "concept"
        base == template_base(h) + OffsetOf(templates, TemplateOrder, key)
    IN  [heap |-> h \o AllDescriptors(templates, TemplateOrder),
         plan |-> [i \in 1..Len(templates[key]) |-> base + i]]

\* the descriptors a list of addresses points to
Deref(h, plan) == [i \in 1..Len(plan) |-> h[plan[i]]]

InitThreads ==
    /\ call = "threads"
    /\ text = NoText
    /\ hashseed \in 0..MaxSeed
    /\ pattern_type = "concept"
    /\ concept_count = 0
    /\ video_exists = FALSE
    /\ metadata = NoMetadata
    /\ analysis = None
    /\ scenes = None
    /\ total_duration = None
    /\ estimated_duration = None
    /\ assessment = None
    /\ report = None
    /\ extracted = None
    /\ again = None
    /\ objects = InitialObjects
    /\ heap = <<>>
    /\ frames \in [Threads -> {Frame(ConcurrentCalls[k]) :
                                  k \in 1..Len(ConcurrentCalls)}]

sequential ==
    <<call, text, hashseed, pattern_type, concept_count, video_exists,
      metadata, analysis, scenes, total_duration, estimated_duration,
      assessment, report, extracted, again>>

At(t, op, pc) ==
    /\ call = "threads"
    /\ frames[t].called.op = op
    /\ frames[t].pc = pc

\* analyze_content lines 25-35: the pattern loop and the sort
ThreadDetect(t) ==
    /\ At(t, "analyze", "detect")
    /\ LET text_lower == lower(frames[t].called.text)
           detected_patterns ==
               detect_patterns(objects.visual_patterns, text_lower)
       IN  frames' = [frames EXCEPT
               ![t].locals = [sorted_patterns |-> sorted_by_count(detected_patterns)],
               ![t].pc = "extract"]
    /\ UNCHANGED <<objects, heap>>
    /\ UNCHANGED sequential

\* analyze_content lines 38-41
ThreadExtract(t) ==
    /\ At(t, "analyze", "extract")
    /\ frames' = [frames EXCEPT
           ![t].locals = [sorted_patterns |-> frames[t].locals.sorted_patterns,
                          key_concepts |->
                              _extract_key_concepts(frames[t].called.text, hashseed),
                          primary_pattern |->
                              primary_pattern_of(frames[t].locals.sorted_patterns)],
           ![t].pc = "recommend"]
    /\ UNCHANGED <<objects, heap>>
    /\ UNCHANGED sequential

\* analyze_content lines 43-50: the returned dict with the recommended scenes
ThreadAnalyzeReturn(t) ==
    /\ At(t, "analyze", "recommend")
    /\ LET l == frames[t].locals
       IN  IF IsRaise(l.primary_pattern)
           THEN /\ frames' = [frames EXCEPT ![t].result = l.primary_pattern,
                                            ![t].pc = "done"]
                /\ heap' = heap
           ELSE LET made == recommend_scenes_on_heap(
                                heap, l.primary_pattern.value, Len(l.key_concepts))
                IN  /\ heap' = made.heap
                    /\ frames' = [frames EXCEPT
                           ![t].result = Return(
                               [primary_visual_pattern |-> l.primary_pattern.value,
                                all_patterns |-> l.sorted_patterns,
                                key_concepts |-> l.key_concepts,
                                word_count |-> Len(split(frames[t].called.text)),
                                sentence_count |->
                                    Len(re_split_sentences(frames[t].called.text)),
                                recommended_scenes |-> made.plan]),
                           ![t].pc = "done"]
    /\ UNCHANGED objects
    /\ UNCHANGED sequential

\* _recommend_scenes called on its own
ThreadRecommend(t) ==
    /\ At(t, "plan", "recommend")
    /\ LET made == recommend_scenes_on_heap(
                       heap, frames[t].called.pattern_type,
                       frames[t].called.concept_count)
       IN  /\ heap' = made.heap
           /\ frames' = [frames EXCEPT ![t].result = Return(made.plan),
                                       ![t].pc = "done"]
    /\ UNCHANGED objects
    /\ UNCHANGED sequential

\* assess_video lines 32-54
ThreadCheckFile(t) ==
    /\ At(t, "assess", "exists")
    /\ frames' = IF ~frames[t].called.exists
                 THEN [frames EXCEPT ![t].result = Return(demo_assessment),
                                     ![t].pc = "done"]
                 ELSE [frames EXCEPT ![t].locals = [metrics |-> <<>>],
                                     ![t].pc = "duration"]
    /\ UNCHANGED <<objects, heap>>
    /\ UNCHANGED sequential

\* assess_video lines 57-59
ThreadDuration(t) ==
    /\ At(t, "assess", "duration")
    /\ LET duration ==
               Get(objects.metadata[frames[t].called.metadata], "duration", 0)
       IN  frames' = [frames EXCEPT
               ![t].locals = [duration |-> duration,
                              metrics |-> <<Entry("duration",
                                                  _assess_duration(duration))>>],
               ![t].pc = "scene_count"]
    /\ UNCHANGED <<objects, heap>>
    /\ UNCHANGED sequential

\* assess_video lines 62-64
ThreadSceneCount(t) ==
    /\ At(t, "assess", "scene_count")
    /\ LET scene_count ==
               Get(objects.metadata[frames[t].called.metadata], "scene_count", 0)
           l == frames[t].locals
       IN  frames' = [frames EXCEPT
               ![t].locals = [duration |-> l.duration,
                              scene_count |-> scene_count,
                              metrics |-> Append(l.metrics,
                                  Entry("scene_structure",
                                        _assess_scene_count(scene_count)))],
               ![t].pc = "pacing"]
    /\ UNCHANGED <<objects, heap>>
    /\ UNCHANGED sequential

\* assess_video lines 67-70
ThreadPacing(t) ==
    /\ At(t, "assess", "pacing")
    /\ LET l == frames[t].locals
           pacing == TrueDiv(l.duration, l.scene_count)
       IN  frames' =
               IF l.scene_count > 0
               THEN IF IsRaise(pacing)
                    THEN [frames EXCEPT ![t].result = pacing, ![t].pc = "done"]
                    ELSE [frames EXCEPT
                             ![t].locals.metrics =
                                 Append(l.metrics,
                                        Entry("pacing", _assess_pacing(pacing.value))),
                             ![t].pc = "clarity"]
               ELSE [frames EXCEPT ![t].pc = "clarity"]
    /\ UNCHANGED <<objects, heap>>
    /\ UNCHANGED sequential

\* assess_video lines 73-75
ThreadClarity(t) ==
    /\ At(t, "assess", "clarity")
    /\ LET l == frames[t].locals
           concepts ==
               Get(objects.metadata[frames[t].called.metadata], "concept_count", 0)
           clarity == _assess_clarity(concepts, l.duration)
       IN  frames' =
               IF IsRaise(clarity)
               THEN [frames EXCEPT ![t].result = clarity, ![t].pc = "done"]
               ELSE [frames EXCEPT
                        ![t].locals.metrics =
                            Append(l.metrics,
                                   Entry("content_clarity", clarity.value)),
                        ![t].pc = "finish"]
    /\ UNCHANGED <<objects, heap>>
    /\ UNCHANGED sequential

\* assess_video lines 78-101
ThreadFinish(t) ==
    /\ At(t, "assess", "finish")
    /\ LET metrics == frames[t].locals.metrics
           overall == overall_score(metrics)
       IN  frames' = [frames EXCEPT
               ![t].result = Return(
                   [overall_score |-> overall,
                    metrics |-> metrics,
                    recommendations |-> _generate_recommendations(metrics),
                    strengths |-> strengths_of(metrics),
                    weaknesses |-> weaknesses_of(metrics),
                    rating |-> rating_of(overall)]),
               ![t].pc = "done"]
    /\ UNCHANGED <<objects, heap>>
    /\ UNCHANGED sequential

NextThreads ==
    \E t \in Threads :
        \/ ThreadDetect(t)
        \/ ThreadExtract(t)
        \/ ThreadAnalyzeReturn(t)
        \/ ThreadRecommend(t)
        \/ ThreadCheckFile(t)
        \/ ThreadDuration(t)
        \/ ThreadSceneCount(t)
        \/ ThreadPacing(t)
        \/ ThreadClarity(t)
        \/ ThreadFinish(t)

SpecThreads == InitThreads /\ [][NextThreads]_vars

\* every entry point
Init == InitAnalyze \/ InitPlan \/ InitExtract \/ InitAssess \/ InitThreads
Next ==
    \/ AnalyzeContent
    \/ RecommendScenes
    \/ GenerateVisualBlueprint
    \/ SynthesizeVideo
    \/ ExtractKeyConcepts
    \/ ExtractAgain
    \/ AssessVideo
    \/ GenerateReport
    \/ NextThreads
Spec == Init /\ [][Next]_vars

(***************************************************************************)
(* Properties.                                                             *)
(***************************************************************************)
NonNegativeMetadata ==
    /\ metadata.duration >= 0
    /\ metadata.scene_count >= 0
    /\ metadata.concept_count >= 0

\* the arithmetic mean, stated without division: overall * n = sum of scores
IsMeanOfMetrics(r) ==
    IF r.metrics = <<>> THEN r.overall_score = 0
    ELSE r.overall_score * Len(r.metrics) = SumSeq(Scores(r.metrics))

\* C1 as claimed: in every record assess returns, on the artifact-exists path
\* and on the artifact-missing path, overall_score is the arithmetic mean of
\* the scores of the metrics in the record (0 if there are none). Stated for
\* the metadata the contract admits.
C1_OverallIsMeanOnBothPaths ==
    (IsReturn(assessment) /\ NonNegativeMetadata) =>
        IsMeanOfMetrics(assessment.value)

\* C1 amended: on the artifact-exists path overall_score is the arithmetic
\* mean of the scores of the metrics in the record; the artifact-missing
\* record has overall_score 0.75, which is not the mean (0) of its metrics.
C1_OverallIsMeanWhenExists ==
    IsReturn(assessment) =>
        IF video_exists THEN IsMeanOfMetrics(assessment.value)
        ELSE /\ assessment.value.overall_score * 4 = Tenths(10) * 3
             /\ ~IsMeanOfMetrics(assessment.value)

\* an assessment of three metrics (no pacing) with unequal scores
C1_Witness ==
    /\ IsReturn(assessment)
    /\ video_exists
    /\ Len(assessment.value.metrics) = 3
    /\ assessment.value.metrics[1].score # assessment.value.metrics[3].score

\* C2: when the artifact does not exist assess returns, whatever the
\* metadata, the record with overall_score 0.75, rating Good (Demo), the one
\* metric file_exists (score 0, status fail) and one recommendation.
C2_DemoRecordIsFixed ==
    (call = "assess" /\ assessment # None /\ ~video_exists) =>
        /\ IsReturn(assessment)
        /\ LET r == assessment.value
           IN  /\ r.overall_score * 4 = Tenths(10) * 3
               /\ r.rating = "Good (Demo)"
               /\ Len(r.metrics) = 1
               /\ r.metrics[1].name = "file_exists"
               /\ r.metrics[1].score = 0
               /\ r.metrics[1].status = "fail"
               /\ Len(r.recommendations) = 1
               /\ \A i \in 1..Len(r.metrics) :
                      r.metrics[i].name \notin
                          {"duration", "scene_structure", "pacing",
                           "content_clarity"}

\* the demo record returned for metadata the other path would score badly
C2_Witness ==
    /\ IsReturn(assessment)
    /\ ~video_exists
    /\ metadata.duration < 0
    /\ metadata.scene_count > 15

Categories == 1..Len(visual_patterns)

\* for every category, the number of its keywords that occur in the
\* lower-cased text
Hits ==
    LET text_lower == lower(text)
    IN  [i \in Categories |->
            Cardinality({k \in 1..Len(visual_patterns[i].keywords) :
                            Contains(text_lower, visual_patterns[i].keywords[k])})]

\* category i has the highest hit count and is the first such category
FirstMaximal(hits, i) ==
    /\ hits[i] > 0
    /\ \A j \in Categories : hits[j] <= hits[i]
    /\ \A j \in Categories : hits[j] = hits[i] => i <= j

\* C3: primary_pattern is the category with the highest hit count, and among
\* categories sharing the highest count the first in declaration order.
C3_PrimaryIsFirstMaximal ==
    IsReturn(analysis) =>
        LET hits == Hits
        IN  \A i \in Categories :
                FirstMaximal(hits, i) =>
                    analysis.value.primary_visual_pattern = visual_patterns[i].name

\* two categories share the highest count and the earlier one was returned
C3_Witness ==
    /\ IsReturn(analysis)
    /\ LET hits == Hits
       IN  \E i, j \in Categories :
              /\ i < j
              /\ FirstMaximal(hits, i)
              /\ hits[j] = hits[i]
              /\ analysis.value.primary_visual_pattern = visual_patterns[i].name

\* C4 as claimed: extract returns at most 8 entries, every entry is longer
\* than 3 characters and no entry is one of The, This, That, With.
C4_ConceptsBoundedLongNotStopWords ==
    IsReturn(analysis) =>
        LET concepts == analysis.value.key_concepts
        IN  /\ Len(concepts) <= 8
            /\ \A i \in 1..Len(concepts) :
                  /\ Len(concepts[i]) > 3
                  /\ concepts[i] \notin Range(StopList)

\* the repeat_count of a scene descriptor
repeat_count(scene) == Get(scene, "repeat", 1)

\* C5 as claimed: every descriptor of every plan has repeat_count >= 1, and
\* the steps descriptor of the process plan has repeat_count = concept_count
\* when concept_count >= 1 and 1 when concept_count is 0.
C5_RepeatCountAtLeastOne ==
    (call = "plan" /\ IsReturn(scenes)) =>
        \A i \in 1..Len(scenes.value) :
            /\ repeat_count(scenes.value[i]) >= 1
            /\ (pattern_type = "process" /\ scenes.value[i].type = "steps") =>
                   repeat_count(scenes.value[i]) =
                       (IF concept_count >= 1 THEN concept_count ELSE 1)

\* the sum over the descriptors of base_duration times repeat_count
WeightedDuration(plan) ==
    SumSeq([i \in 1..Len(plan) |-> plan[i].duration * repeat_count(plan[i])])

\* C6 as claimed: the total duration of a plan, the blueprint's and the
\* estimate handed on with the plan to the renderer, is the sum over the
\* descriptors of base_duration times repeat_count; 12 for plan(process, 3).
\* Stated for plans of at least one concept, where no repeat_count is 0.
C6_EstimatesAreWeightedSum ==
    (call = "plan" /\ IsReturn(scenes) /\ concept_count >= 1) =>
        /\ IsReturn(total_duration) =>
               total_duration.value = WeightedDuration(scenes.value)
        /\ IsReturn(estimated_duration) =>
               estimated_duration.value = WeightedDuration(scenes.value)
        /\ (pattern_type = "process" /\ concept_count = 3) =>
               /\ IsReturn(total_duration) => total_duration.value = 12
               /\ IsReturn(estimated_duration) => estimated_duration.value = 12

BelowPointSeven(m) == m.score < Tenths(7)

\* C7 as claimed: for an existing artifact every metric scoring below 0.7
\* contributes exactly one message, the one keyed by its name and status, in
\* metric order, and the fallback is the only message iff none contributed.
\* Stated for the metadata the contract admits.
C7_OneMessagePerLowMetric ==
    (IsReturn(assessment) /\ video_exists /\ NonNegativeMetadata) =>
        LET r == assessment.value
            low == SelectSeq(r.metrics, BelowPointSeven)
        IN  IF low = <<>> THEN r.recommendations = <<Fallback>>
            ELSE /\ Len(r.recommendations) = Len(low)
                 /\ \A i \in 1..Len(low) :
                        /\ r.recommendations[i] # Fallback
                        /\ <<r.recommendations[i]>> =
                               RecommendationFor(low[i].name, low[i].status)

\* C8 as claimed: assess of an existing artifact ends in a validation
\* failure, with no record, when duration, scene_count or concept_count is
\* negative, and in a record otherwise.
C8_NegativeMetadataRejected ==
    (call = "assess" /\ video_exists /\ assessment # None) =>
        IF NonNegativeMetadata THEN IsReturn(assessment)
        ELSE IsRaise(assessment)

\* C9: on non-negative input no call ends in an error: analyze_content
\* (detect, extract), _recommend_scenes (plan) and assess_video each return,
\* also for the empty text, scene_count 0 and duration 0.
C9_NeverRaises ==
    /\ ~IsRaise(analysis)
    /\ ~IsRaise(scenes)
    /\ ~IsRaise(total_duration)
    /\ ~IsRaise(estimated_duration)
    /\ (call = "assess" /\ NonNegativeMetadata) => ~IsRaise(assessment)
    /\ (call = "assess" /\ NonNegativeMetadata /\ assessment # None
        /\ video_exists) =>
           /\ assessment.value.metrics # <<>>
           /\ (metadata.duration = 0 =>
                  \E i \in 1..Len(assessment.value.metrics) :
                      /\ assessment.value.metrics[i].name = "content_clarity"
                      /\ assessment.value.metrics[i].status = "unknown")

\* an existing artifact of duration 0 and no scenes was assessed
C9_Witness ==
    /\ call = "assess"
    /\ video_exists
    /\ metadata.duration = 0
    /\ metadata.scene_count = 0
    /\ IsReturn(assessment)

RatingRank(rating) ==
    CASE rating = "Needs Improvement" -> 0
      [] rating = "Fair" -> 1
      [] rating = "Good" -> 2
      [] rating = "Excellent" -> 3

\* C10: for an existing artifact the rating is Excellent from 0.8, Good
\* from 0.7, Fair from 0.6 and Needs Improvement below; no lower score is
\* rated higher and no higher score is rated lower than the record's;
\* duration 45, 5 scenes, 6 concepts scores 0.925, Excellent.
C10_RatingBands ==
       (IsReturn(assessment) /\ video_exists) =>
           LET r == assessment.value
           IN  /\ r.overall_score >= Tenths(8) => r.rating = "Excellent"
               /\ (Tenths(7) <= r.overall_score /\ r.overall_score < Tenths(8))
                      => r.rating = "Good"
               /\ (Tenths(6) <= r.overall_score /\ r.overall_score < Tenths(7))
                      => r.rating = "Fair"
               /\ r.overall_score < Tenths(6) => r.rating = "Needs Improvement"
               /\ metadata = [duration |-> 45, scene_count |-> 5,
                              concept_count |-> 6] =>
                      /\ r.overall_score * 40 = Tenths(10) * 37
                      /\ r.rating = "Excellent"
               /\ \A other \in 0..Tenths(10) :
                      IF other <= r.overall_score
                      THEN RatingRank(rating_of(other)) <= RatingRank(r.rating)
                      ELSE RatingRank(r.rating) <= RatingRank(rating_of(other))

\* the record of duration 45, 5 scenes, 6 concepts
C10_Witness ==
    /\ IsReturn(assessment)
    /\ video_exists
    /\ metadata = [duration |-> 45, scene_count |-> 5, concept_count |-> 6]
    /\ assessment.value.rating = "Excellent"

\* the record has a metric of this name, and that metric
HasMetric(r, name) == \E i \in 1..Len(r.metrics) : r.metrics[i].name = name
MetricOf(r, name) ==
    r.metrics[CHOOSE i \in 1..Len(r.metrics) : r.metrics[i].name = name]

\* the four cases of the duration metric, as the claim words them
DurationCase(c, d) ==
    CASE c = 1 -> d < 10
      [] c = 2 -> d > 300
      [] c = 3 -> 30 <= d /\ d <= 120
      [] c = 4 -> (10 <= d /\ d < 30) \/ (120 < d /\ d <= 300)

\* C11: the duration metric of an existing artifact scores 0.4 too_short
\* below 10, 0.6 too_long above 300, 1.0 optimal in [30, 120] and 0.8
\* acceptable in [10, 30) and (120, 300]; exactly one case applies.
C11_DurationBands ==
    (IsReturn(assessment) /\ video_exists) =>
        LET r == assessment.value
            d == metadata.duration
        IN  /\ HasMetric(r, "duration")
            /\ Cardinality({c \in 1..4 : DurationCase(c, d)}) = 1
            /\ LET m == MetricOf(r, "duration")
               IN  /\ DurationCase(1, d) =>
                          (m.score = Tenths(4) /\ m.status = "too_short")
                   /\ DurationCase(2, d) =>
                          (m.score = Tenths(6) /\ m.status = "too_long")
                   /\ DurationCase(3, d) =>
                          (m.score = Tenths(10) /\ m.status = "optimal")
                   /\ DurationCase(4, d) =>
                          (m.score = Tenths(8) /\ m.status = "acceptable")

\* the upper bound of the optimal range was scored optimal
C11_Witness ==
    /\ IsReturn(assessment)
    /\ video_exists
    /\ metadata.duration = 120
    /\ MetricOf(assessment.value, "duration").status = "optimal"

\* C12: the scene_structure metric of an existing artifact scores 0.5
\* too_few below 2, 0.6 too_many above 15, 1.0 optimal in [3, 8] and 0.8
\* acceptable for 2 and for 9..15.
C12_SceneStructureBands ==
    (IsReturn(assessment) /\ video_exists) =>
        LET r == assessment.value
            n == metadata.scene_count
        IN  /\ HasMetric(r, "scene_structure")
            /\ LET m == MetricOf(r, "scene_structure")
               IN  /\ n < 2 => (m.score = Tenths(5) /\ m.status = "too_few")
                   /\ n > 15 => (m.score = Tenths(6) /\ m.status = "too_many")
                   /\ (3 <= n /\ n <= 8) =>
                          (m.score = Tenths(10) /\ m.status = "optimal")
                   /\ (n = 2 \/ (9 <= n /\ n <= 15)) =>
                          (m.score = Tenths(8) /\ m.status = "acceptable")

\* two scenes, the minimum, were scored acceptable
C12_Witness ==
    /\ IsReturn(assessment)
    /\ video_exists
    /\ metadata.scene_count = 2
    /\ MetricOf(assessment.value, "scene_structure").status = "acceptable"

\* C13: the metrics map of an existing artifact holds duration,
\* scene_structure, pacing, content_clarity in this order when
\* scene_count > 0 and duration, scene_structure, content_clarity when
\* scene_count = 0; pacing is present iff scene_count > 0; file_exists never.
C13_MetricsInEvaluationOrder ==
    (IsReturn(assessment) /\ video_exists) =>
        LET r == assessment.value
            n == metadata.scene_count
        IN  /\ n > 0 => Names(r.metrics) = <<"duration", "scene_structure",
                                             "pacing", "content_clarity">>
            /\ n = 0 => Names(r.metrics) = <<"duration", "scene_structure",
                                             "content_clarity">>
            /\ HasMetric(r, "pacing") <=> n > 0
            /\ ~HasMetric(r, "file_exists")

\* a record with the pacing metric between scene_structure and clarity
C13_Witness ==
    /\ IsReturn(assessment)
    /\ video_exists
    /\ metadata.scene_count = 1
    /\ Len(assessment.value.metrics) = 4
    /\ assessment.value.metrics[3].name = "pacing"

\* C14: when present, the pacing metric follows duration / scene_count:
\* 0.6 too_fast below 3, 0.7 too_slow above 8, 1.0 optimal in [3, 8] with
\* both bounds included. The quotient is compared by cross-multiplication
\* with the positive scene_count.
C14_PacingBands ==
    (IsReturn(assessment) /\ video_exists
     /\ HasMetric(assessment.value, "pacing")) =>
        LET m == MetricOf(assessment.value, "pacing")
            d == metadata.duration
            n == metadata.scene_count
        IN  /\ n > 0
            /\ d < 3 * n => (m.score = Tenths(6) /\ m.status = "too_fast")
            /\ d > 8 * n => (m.score = Tenths(7) /\ m.status = "too_slow")
            /\ (3 * n <= d /\ d <= 8 * n) =>
                   (m.score = Tenths(10) /\ m.status = "optimal")

\* a pacing of exactly 8 seconds per scene, not a whole multiple of the
\* threshold's own scene count, was scored optimal
C14_Witness ==
    /\ IsReturn(assessment)
    /\ video_exists
    /\ metadata.scene_count = 7
    /\ metadata.duration = 56
    /\ MetricOf(assessment.value, "pacing").status = "optimal"

\* concept_count / duration * 60 < k and > k for duration # 0
DensityLt(c, d, k) == IF d > 0 THEN 60 * c < k * d ELSE 60 * c > k * d
DensityGt(c, d, k) == IF d > 0 THEN 60 * c > k * d ELSE 60 * c < k * d

\* C15: content_clarity scores 0 unknown when duration = 0; otherwise, by
\* density = concept_count / duration * 60, 0.7 low_density below 1, 0.6
\* high_density above 8 and 1.0 optimal otherwise, densities of exactly 1
\* and exactly 8 counting as optimal.
C15_ClarityBands ==
    (IsReturn(assessment) /\ video_exists) =>
        LET r == assessment.value
            c == metadata.concept_count
            d == metadata.duration
        IN  /\ HasMetric(r, "content_clarity")
            /\ LET m == MetricOf(r, "content_clarity")
               IN  IF d = 0 THEN m.score = 0 /\ m.status = "unknown"
                   ELSE /\ DensityLt(c, d, 1) =>
                               (m.score = Tenths(7) /\ m.status = "low_density")
                        /\ DensityGt(c, d, 8) =>
                               (m.score = Tenths(6) /\ m.status = "high_density")
                        /\ (~DensityLt(c, d, 1) /\ ~DensityGt(c, d, 8)) =>
                               (m.score = Tenths(10) /\ m.status = "optimal")

\* a density of exactly 1 concept per minute was scored optimal
C15_Witness ==
    /\ IsReturn(assessment)
    /\ video_exists
    /\ metadata.concept_count = 2
    /\ metadata.duration = 120
    /\ MetricOf(assessment.value, "content_clarity").status = "optimal"

\* C16: for an existing artifact strengths is exactly the set of metric
\* names scoring >= 0.8 and weaknesses exactly the set of those scoring
\* < 0.6; the two are disjoint and a metric in [0.6, 0.8) is in neither.
C16_StrengthsAndWeaknesses ==
    (IsReturn(assessment) /\ video_exists) =>
        LET r == assessment.value
            strong == {r.metrics[i].name : i \in
                          {j \in 1..Len(r.metrics) : r.metrics[j].score >= Tenths(8)}}
            weak == {r.metrics[i].name : i \in
                        {j \in 1..Len(r.metrics) : r.metrics[j].score < Tenths(6)}}
        IN  /\ Range(r.strengths) = strong
            /\ Range(r.weaknesses) = weak
            /\ Len(r.strengths) = Cardinality(strong)
            /\ Len(r.weaknesses) = Cardinality(weak)
            /\ Range(r.strengths) \cap Range(r.weaknesses) = {}
            /\ \A i \in 1..Len(r.metrics) :
                   (Tenths(6) <= r.metrics[i].score
                    /\ r.metrics[i].score < Tenths(8)) =>
                       /\ r.metrics[i].name \notin Range(r.strengths)
                       /\ r.metrics[i].name \notin Range(r.weaknesses)

\* a record with a weakness (0.4), a metric in neither list (0.6) and a
\* strength that scores exactly 0.8
C16_Witness ==
    /\ IsReturn(assessment)
    /\ video_exists
    /\ metadata.duration = 5
    /\ metadata.scene_count = 10
    /\ assessment.value.weaknesses = <<"duration">>
    /\ assessment.value.strengths = <<"scene_structure">>
    /\ HasMetric(assessment.value, "pacing")

\* C17: pattern_scores holds exactly the categories with at least one
\* keyword occurring in the lower-cased text, each with the number of its
\* distinct keywords that occur; no count is 0 and none exceeds the size of
\* the category's keyword list.
C17_ScoresAreDistinctKeywordCounts ==
    IsReturn(analysis) =>
        LET hits == Hits
            scores == analysis.value.all_patterns
            found == {i \in Categories : hits[i] > 0}
        IN  /\ {scores[k].name : k \in 1..Len(scores)} =
                   {visual_patterns[i].name : i \in found}
            /\ Len(scores) = Cardinality(found)
            /\ \A k \in 1..Len(scores) :
                   /\ scores[k].count > 0
                   /\ \A i \in Categories :
                          scores[k].name = visual_patterns[i].name =>
                              /\ scores[k].count = hits[i]
                              /\ scores[k].count <= Len(visual_patterns[i].keywords)

\* the keyword step occurs twice in the text and process is scored 1
C17_Witness ==
    /\ IsReturn(analysis)
    /\ Occurrences(lower(text), <<"s","t","e","p">>) = 2
    /\ \E k \in 1..Len(analysis.value.all_patterns) :
           /\ analysis.value.all_patterns[k].name = "process"
           /\ analysis.value.all_patterns[k].count = 1

\* C18: when no keyword of any category occurs in the text, the empty text
\* included, analyze_content returns primary pattern concept and empty
\* pattern scores; on the empty text the concept list is empty.
C18_NoKeywordGivesConcept ==
    (call = "analyze" /\ analysis # None) =>
        /\ (\A i \in Categories : Hits[i] = 0) =>
               /\ IsReturn(analysis)
               /\ analysis.value.primary_visual_pattern = "concept"
               /\ analysis.value.all_patterns = <<>>
        /\ text = <<>> =>
               /\ IsReturn(analysis)
               /\ analysis.value.key_concepts = <<>>

\* a text of two words, none holding a keyword, was analysed
C18_Witness ==
    /\ IsReturn(analysis)
    /\ Len(split(text)) = 2
    /\ \A i \in Categories : Hits[i] = 0
    /\ analysis.value.primary_visual_pattern = "concept"

\* kind, base_duration and visual_style of the descriptors of a plan
Shape(plan) ==
    [i \in 1..Len(plan) |-> <<plan[i].type, plan[i].duration, plan[i].visual>>]

ConceptShape ==
    <<<<"intro", 3, "fade_in">>,
      <<"explanation", 5, "bullet_points">>,
      <<"conclusion", 2, "fade_out">>>>

\* the template each named pattern has of its own
OwnShape(pattern) ==
    CASE pattern = "comparison" ->
            <<<<"intro", 3, "split_screen">>,
              <<"comparison", 5, "side_by_side">>,
              <<"conclusion", 2, "merge">>>>
      [] pattern = "process" ->
            <<<<"intro", 3, "title">>,
              <<"steps", 2, "flowchart">>,
              <<"summary", 3, "overview">>>>
      [] pattern = "hierarchy" ->
            <<<<"intro", 3, "title">>,
              <<"structure", 6, "tree_diagram">>,
              <<"details", 4, "zoom_in">>>>
      [] pattern = "timeline" ->
            <<<<"intro", 3, "title">>,
              <<"timeline", 7, "horizontal_timeline">>,
              <<"conclusion", 2, "summary">>>>
      [] pattern = "concept" -> ConceptShape

\* C19: _recommend_scenes returns the concept template (intro 3, explanation
\* 5, conclusion 2) for statistics, relationship and an unknown pattern name,
\* and the pattern's own template for comparison, process, hierarchy,
\* timeline and concept; every plan has 2 to 3 descriptors, each with a
\* positive base_duration.
C19_TemplatesAndFallback ==
    (call = "plan" /\ IsReturn(scenes)) =>
        LET plan == scenes.value
        IN  /\ pattern_type \in {"statistics", "relationship", "unknown"} =>
                   Shape(plan) = ConceptShape
            /\ pattern_type \in {"comparison", "process", "hierarchy",
                                 "timeline", "concept"} =>
                   Shape(plan) = OwnShape(pattern_type)
            /\ 2 <= Len(plan) /\ Len(plan) <= 3
            /\ \A i \in 1..Len(plan) : plan[i].duration > 0

\* a pattern name that is no category was planned with the concept template
C19_Witness ==
    /\ call = "plan"
    /\ pattern_type = "unknown"
    /\ IsReturn(scenes)
    /\ Shape(scenes.value) = ConceptShape

\* the concepts the words of the first five sentences can contribute
FirstFiveCandidates ==
    LET sentences == Prefix(re_split_sentences(text), 5)
    IN  UNION {{strip(w, Punctuation) : w \in Range(split(sentences[i]))} :
                  i \in 1..Len(sentences)}

\* C20 as claimed: two calls of extract on the same text return the same
\* sequence of concepts, the same elements in the same order and the same 8
\* kept of more than 8 candidates; no concept appears twice and none comes
\* from beyond the first 5 sentences. Stated for texts whose concepts are
\* all longer than 3 characters.
C20_ExtractIsDeterministic ==
    (IsReturn(extracted) /\ again # None
     /\ \A c \in Range(extracted.value) : Len(c) > 3) =>
        /\ again.key_concepts = extracted.value
        /\ Cardinality(Range(extracted.value)) = Len(extracted.value)
        /\ Range(extracted.value) \subseteq FirstFiveCandidates

\* C23: for an existing artifact with non-negative metadata, when the
\* recommendations are the single fallback message every metric scores
\* >= 0.7, weaknesses is empty and the rating is Excellent or Good; a
\* content_clarity of status unknown never comes with the fallback.
C23_FallbackMeansNoLowMetric ==
    (IsReturn(assessment) /\ video_exists /\ NonNegativeMetadata
     /\ assessment.value.recommendations = <<Fallback>>) =>
        LET r == assessment.value
        IN  /\ \A i \in 1..Len(r.metrics) : r.metrics[i].score >= Tenths(7)
            /\ r.weaknesses = <<>>
            /\ r.rating \in {"Excellent", "Good"}
            /\ \A i \in 1..Len(r.metrics) :
                   ~(/\ r.metrics[i].name = "content_clarity"
                     /\ r.metrics[i].status = "unknown")

\* the fallback was given to a record with a metric scoring exactly 0.7
C23_Witness ==
    /\ IsReturn(assessment)
    /\ video_exists
    /\ NonNegativeMetadata
    /\ assessment.value.recommendations = <<Fallback>>
    /\ \E i \in 1..Len(assessment.value.metrics) :
           assessment.value.metrics[i].score = Tenths(7)

\* C24: for an existing artifact with duration 0 and non-negative scene and
\* concept counts, duration is too_short (0.4), content_clarity is unknown
\* (0), pacing if present is too_fast (0.6), overall_score is at most 0.5,
\* the rating is Needs Improvement, duration and content_clarity are both
\* weaknesses, and the recommendations hold the duration/too_short message
\* and no content_clarity message.
C24_ZeroDuration ==
    (IsReturn(assessment) /\ video_exists /\ NonNegativeMetadata
     /\ metadata.duration = 0) =>
        LET r == assessment.value
            d == MetricOf(r, "duration")
            c == MetricOf(r, "content_clarity")
        IN  /\ HasMetric(r, "duration")
            /\ d.status = "too_short" /\ d.score = Tenths(4)
            /\ HasMetric(r, "content_clarity")
            /\ c.status = "unknown" /\ c.score = 0
            /\ HasMetric(r, "pacing") =>
                   /\ MetricOf(r, "pacing").status = "too_fast"
                   /\ MetricOf(r, "pacing").score = Tenths(6)
            /\ r.overall_score <= Tenths(5)
            /\ r.rating = "Needs Improvement"
            /\ {"duration", "content_clarity"} \subseteq Range(r.weaknesses)
            /\ "Add more explanatory scenes to increase duration"
                   \in Range(r.recommendations)
            /\ Range(r.recommendations) \cap
                   {"Break complex concepts into simpler parts",
                    "Add more details and examples"} = {}

\* duration 0 with scenes, so that pacing is present, and the highest
\* overall score such a record can have
C24_Witness ==
    /\ IsReturn(assessment)
    /\ video_exists
    /\ metadata.duration = 0
    /\ metadata.scene_count = 5
    /\ metadata.concept_count = 3
    /\ HasMetric(assessment.value, "pacing")
    /\ assessment.value.overall_score = Tenths(5)

\* the lines of a report that open a metric block, and those that number a
\* recommendation
IsBlockHead(line) == DOMAIN line = {"icon", "metric"}
IsNumbered(line) == DOMAIN line = {"number", "recommendation"}

\* the icon the claim gives a score
IconFor(score) ==
    CASE score >= Tenths(8) -> "CHECK MARK"
      [] Tenths(6) <= score /\ score < Tenths(8) -> "WARNING SIGN"
      [] score < Tenths(6) -> "BALLOT X"

\* C22: the report has exactly one block per metric, in the metrics'
\* insertion order, with the check mark from 0.8, the warning sign in
\* [0.6, 0.8) and the cross below 0.6; a strengths section iff strengths is
\* non-empty, a weaknesses section iff weaknesses is non-empty; the
\* recommendations numbered 1, 2, ... in list order; formatting the same
\* record once more gives the same lines.
C22_ReportFollowsRecord ==
    IsReturn(report) =>
        LET r == assessment.value
            lines == report.value
            heads == SelectSeq(lines, IsBlockHead)
            numbered == SelectSeq(lines, IsNumbered)
        IN  /\ Len(heads) = Len(r.metrics)
            /\ \A i \in 1..Len(heads) :
                   /\ heads[i].metric = upper(name_chars(r.metrics[i].name))
                   /\ heads[i].icon = IconFor(r.metrics[i].score)
            /\ (\E i \in 1..Len(lines) : lines[i] = Fixed("STRENGTHS"))
                   <=> r.strengths # <<>>
            /\ (\E i \in 1..Len(lines) : lines[i] = Fixed("AREAS FOR IMPROVEMENT"))
                   <=> r.weaknesses # <<>>
            /\ Len(numbered) = Len(r.recommendations)
            /\ \A i \in 1..Len(numbered) :
                   /\ numbered[i].number = str_int(i)
                   /\ numbered[i].recommendation = r.recommendations[i]
            /\ generate_report(r) = lines

\* the report of a record with four metrics, one of them scoring exactly
\* 0.8, a strength, no weakness and two recommendations
C22_Witness ==
    /\ IsReturn(report)
    /\ video_exists
    /\ NonNegativeMetadata
    /\ Len(assessment.value.metrics) = 4
    /\ \E i \in 1..4 : assessment.value.metrics[i].score = Tenths(8)
    /\ assessment.value.strengths # <<>>
    /\ assessment.value.weaknesses = <<>>
    /\ Len(assessment.value.recommendations) = 2

\* the addresses of the descriptors in the plan thread t's call returned
PlanOf(t) ==
    LET f == frames[t]
    IN  IF ~IsReturn(f.result) THEN <<>>
        ELSE IF f.called.op = "plan" THEN f.result.value
        ELSE IF f.called.op = "analyze" THEN f.result.value.recommended_scenes
        ELSE <<>>

\* what the call of thread t returns when it runs alone
ResultAlone(t) ==
    LET c == frames[t].called
    IN  CASE c.op = "analyze" -> analyze_content(c.text, hashseed)
          [] c.op = "plan" -> Return(_recommend_scenes(c.pattern_type, c.concept_count))
          [] c.op = "assess" -> assess_video(c.exists, CallerMetadata[c.metadata])

\* the result of thread t with the plan's addresses replaced by the
\* descriptors they point to
ResultDereferenced(t) ==
    LET f == frames[t]
    IN  IF ~IsReturn(f.result) THEN f.result
        ELSE IF f.called.op = "plan" THEN Return(Deref(heap, f.result.value))
        ELSE IF f.called.op = "analyze"
        THEN Return([f.result.value EXCEPT
                        !.recommended_scenes = Deref(heap, @)])
        ELSE f.result

\* C21: under any interleaving of analyze_content, _recommend_scenes and
\* assess_video calls on shared instances the keyword table, the threshold
\* table and the callers' metadata are never modified, the descriptors of
\* the templates stay as created, each finished call has the result it has
\* when run alone, and the plans of two calls share no descriptor.
C21_CallsDoNotInterfere ==
    call = "threads" =>
        /\ objects = InitialObjects
        /\ \A t \in Threads :
               frames[t].pc = "done" => ResultDereferenced(t) = ResultAlone(t)
        /\ \A t, u \in Threads :
               t # u => Range(PlanOf(t)) \cap Range(PlanOf(u)) = {}

\* two finished calls returned the process template, as separate descriptors
C21_Witness ==
    /\ call = "threads"
    /\ \A t \in Threads : frames[t].pc = "done"
    /\ \E t, u \in Threads :
           /\ t # u
           /\ PlanOf(t) # <<>>
           /\ Deref(heap, PlanOf(t)) = Deref(heap, PlanOf(u))
           /\ \E i \in 1..Len(PlanOf(t)) : "repeat" \in DOMAIN heap[PlanOf(t)[i]]

====
